---- MODULE Spec2Model ----
(***************************************************************************)
(* Model of madrid_enricher.py: a Flask endpoint that repeatedly fetches   *)
(* warehouse rows with NULL target columns, asks an LLM to fill them,      *)
(* coerces the reply and writes it back with one UPDATE per row.           *)
(*                                                                         *)
(* Values (JSON values, Python values, warehouse cells) are tagged         *)
(* records; text is a sequence of one-character strings so that str(),     *)
(* strip(), lower() and replace() are computed, not assumed.               *)
(***************************************************************************)
EXTENDS Integers, Sequences, FiniteSets, TLC

(***************************************************************************)
(* Values                                                                  *)
(***************************************************************************)
None == [t |-> "None"]
StrV(s) == [t |-> "str", s |-> s]
IntV(n) == [t |-> "int", n |-> n]
\* a float m / 10^e, kept normalised (no trailing zero digit while e > 0)
FloatV(m, e) == [t |-> "float", m |-> m, e |-> e]
BoolV(b) == [t |-> "bool", b |-> b]

Digits == <<"0", "1", "2", "3", "4", "5", "6", "7", "8", "9">>
UpperAlpha == <<"A", "E", "F", "L", "N", "O", "R", "S", "T", "U", "Y">>
LowerAlpha == <<"a", "e", "f", "l", "n", "o", "r", "s", "t", "u", "y">>

IsDigit(c) == \E i \in 1..10 : Digits[i] = c
DigitVal(c) == (CHOOSE i \in 1..10 : Digits[i] = c) - 1

RECURSIVE Pow10(_)
Pow10(e) == IF e = 0 THEN 1 ELSE 10 * Pow10(e - 1)

\* str(n) for an int n >= 0
RECURSIVE NatStr(_)
NatStr(n) == IF n < 10 THEN <<Digits[n + 1]>>
             ELSE NatStr(n \div 10) \o <<Digits[(n % 10) + 1]>>

IntStr(n) == IF n < 0 THEN <<"-">> \o NatStr(0 - n) ELSE NatStr(n)

\* the e fractional digits of m / 10^e
RECURSIVE FracStr(_, _)
FracStr(m, e) == IF e = 0 THEN <<>>
                 ELSE FracStr(m \div 10, e - 1) \o <<Digits[(m % 10) + 1]>>

\* repr of a float m / 10^e, m >= 0: "4.0", "2.5"
FloatStr(m, e) == IF e = 0 THEN NatStr(m) \o <<".", "0">>
                  ELSE NatStr(m \div Pow10(e)) \o <<".">> \o FracStr(m, e)

\* Python str(val)
PyStr(val) == CASE val.t = "str" -> val.s
                [] val.t = "int" -> IntStr(val.n)
                [] val.t = "float" -> FloatStr(val.m, val.e)
                [] val.t = "bool" -> IF val.b THEN <<"T", "r", "u", "e">>
                                     ELSE <<"F", "a", "l", "s", "e">>
                [] OTHER -> <<"N", "o", "n", "e">>

RECURSIVE LStrip(_)
LStrip(s) == IF s # <<>> /\ Head(s) = " " THEN LStrip(Tail(s)) ELSE s

RECURSIVE RStrip(_)
RStrip(s) == IF s # <<>> /\ s[Len(s)] = " "
             THEN RStrip(SubSeq(s, 1, Len(s) - 1)) ELSE s

\* str.strip()
Strip(s) == RStrip(LStrip(s))

LowerChar(c) == IF \E i \in 1..Len(UpperAlpha) : UpperAlpha[i] = c
                THEN LowerAlpha[CHOOSE i \in 1..Len(UpperAlpha) : UpperAlpha[i] = c]
                ELSE c

\* str.lower()
Lower(s) == [i \in 1..Len(s) |-> LowerChar(s[i])]

\* str.replace(",", "")
RECURSIVE RemoveCommas(_)
RemoveCommas(s) == IF s = <<>> THEN <<>>
                   ELSE IF Head(s) = "," THEN RemoveCommas(Tail(s))
                   ELSE <<Head(s)>> \o RemoveCommas(Tail(s))

AllDigits(s) == \A i \in 1..Len(s) : IsDigit(s[i])

RECURSIVE DigitsVal(_)
DigitsVal(s) == IF s = <<>> THEN 0
                ELSE 10 * DigitsVal(SubSeq(s, 1, Len(s) - 1)) + DigitVal(s[Len(s)])

Unsigned(s) == IF s # <<>> /\ Head(s) \in {"-", "+"} THEN Tail(s) ELSE s
Sign(s) == IF s # <<>> /\ Head(s) = "-" THEN 0 - 1 ELSE 1

\* int(s) succeeds: optional surrounding blanks, optional sign, decimal digits
IntParses(s) == LET u == Unsigned(Strip(s)) IN u # <<>> /\ AllDigits(u)
IntOf(s) == Sign(Strip(s)) * DigitsVal(Unsigned(Strip(s)))

DotAt(s) == CHOOSE i \in 1..Len(s) : s[i] = "."
HasDot(s) == \E i \in 1..Len(s) : s[i] = "."

\* float(s) succeeds (plain decimal notation): digits, at most one ".",
\* at least one digit
FloatParses(s) ==
    LET u == Unsigned(Strip(s)) IN
    IF HasDot(u)
    THEN LET ip == SubSeq(u, 1, DotAt(u) - 1)
             fp == SubSeq(u, DotAt(u) + 1, Len(u))
         IN AllDigits(ip) /\ AllDigits(fp) /\ Len(ip) + Len(fp) > 0
    ELSE u # <<>> /\ AllDigits(u)

RECURSIVE NormFloat(_, _)
NormFloat(m, e) == IF e > 0 /\ m % 10 = 0 THEN NormFloat(m \div 10, e - 1)
                   ELSE FloatV(m, e)

FloatOf(s) ==
    LET u == Unsigned(Strip(s)) IN
    IF HasDot(u)
    THEN LET ip == SubSeq(u, 1, DotAt(u) - 1)
             fp == SubSeq(u, DotAt(u) + 1, Len(u))
         IN NormFloat(Sign(Strip(s)) * DigitsVal(ip \o fp), Len(fp))
    ELSE FloatV(Sign(Strip(s)) * DigitsVal(u), 0)

(***************************************************************************)
(* Schema                                                                  *)
(***************************************************************************)
\* The columns of TARGET_COLS that carry a distinct behaviour, in source
\* order: the three key columns (plain strings), the boolean-like column
\* and the numeric column the fetch orders by.  The remaining twelve
\* columns take the same branches as city (string) or gtv (numeric).
TARGET_COLS == <<"city", "site_event_entity", "website", "contacted", "gtv">>
Cols == {TARGET_COLS[i] : i \in 1..Len(TARGET_COLS)}
NUMERIC_FIELDS == {"gtv"}
BOOLISH_FIELDS == {"contacted"}

YesWords == {<<"y", "e", "s">>, <<"t", "r", "u", "e">>, <<"y">>, <<"1">>}
NoWords == {<<"n", "o">>, <<"f", "a", "l", "s", "e">>, <<"n">>, <<"0">>}

\* _coerce_value(col, val)
_coerce_value(col, val) ==
    IF val = None THEN None
    ELSE IF col \in NUMERIC_FIELDS
    THEN IF val.t \in {"int", "float", "bool"} THEN val
         ELSE LET s == Strip(RemoveCommas(PyStr(val))) IN
              IF HasDot(s)
              THEN IF FloatParses(s) THEN FloatOf(s) ELSE None
              ELSE IF IntParses(s) THEN IntV(IntOf(s)) ELSE None
    ELSE IF col \in BOOLISH_FIELDS
    THEN LET s == Lower(Strip(PyStr(val))) IN
         IF s \in YesWords THEN StrV(<<"Y", "e", "s">>)
         ELSE IF s \in NoWords THEN StrV(<<"N", "o">>)
         ELSE None
    ELSE StrV(Strip(PyStr(val)))

(***************************************************************************)
(* Bounds and inputs                                                       *)
(***************************************************************************)
NRows == 2          \* rows of the warehouse table
MaxBatches == 2     \* largest max_batches query parameter
MaxRuns == 2        \* requests one client issues in succession

RowIds == 1..NRows
AllProcs == {1, 2}

TxtA == <<"A">>
TxtB == <<"B">>
TxtM == <<"M">>
TxtW == <<"w">>
TxtX == <<"x">>
Yes == <<"Y", "e", "s">>
Empty == <<>>

Row(city, name, site, contacted, gtv) ==
    [c \in Cols |-> CASE c = "city" -> city
                      [] c = "site_event_entity" -> name
                      [] c = "website" -> site
                      [] c = "contacted" -> contacted
                      [] OTHER -> gtv]

\* rows the table may hold before the first request: a complete row, a row
\* without city, a row without entity name (two rows of one kind share
\* their business key)
InitRows == << Row(StrV(TxtM), StrV(TxtA), StrV(TxtW), StrV(Yes), IntV(5)),
              Row(None, StrV(TxtA), StrV(TxtW), None, IntV(7)),
              Row(StrV(TxtM), None, StrV(TxtW), StrV(Yes), None) >>

\* the tables before the first request; which slot holds which row does
\* not matter to any statement, so one arrangement of each is kept
InitTables == { [r \in RowIds |-> InitRows[f[r]]] :
                f \in { g \in [RowIds -> 1..Len(InitRows)] :
                         \A r \in RowIds : r > 1 => g[r - 1] <= g[r] } }

\* JSON objects the model may answer with (an absent key reads as None):
\* two partial answers and a complete one that renames the entity
LLMObjects == { Row(StrV(<<" ", "M">>), None, None, StrV(<<"y", "e", "s">>),
                    StrV(TxtX)),
                Row(StrV(TxtX), StrV(TxtB), None, StrV(<<"n", "o">>), IntV(3)),
                Row(None, None, None, StrV(TxtX), StrV(<<"1", ",", "0">>)) }

\* reply texts: a bare JSON object, an object inside prose or a code fence,
\* text without any object
LLMTexts == { [kind |-> IF o["contacted"] = StrV(<<"n", "o">>)
                             THEN "fenced" ELSE "json",
               obj |-> o] : o \in LLMObjects } \cup
            { [kind |-> "prose", obj |-> None] }

Absent == None

NumTexts(n) == {StrV(NatStr(k)) : k \in 0..n}
One == StrV(NatStr(1))

\* query strings of a request: well-formed ones, and one malformed value
\* for each parameter
Requests == [batch : NumTexts(NRows), max_batches : NumTexts(MaxBatches),
             sleep : {Absent}] \cup
            { [batch |-> StrV(TxtX), max_batches |-> One, sleep |-> Absent],
              [batch |-> One, max_batches |-> StrV(TxtX), sleep |-> Absent],
              [batch |-> One, max_batches |-> One, sleep |-> StrV(TxtX)] }

(***************************************************************************)
(* State                                                                   *)
(***************************************************************************)
VARIABLES
    table,          \* the warehouse table: row slot -> column -> value
    pc,             \* where each request handler stands
    frame,          \* the handler's locals while it runs: batch,
                    \* max_batches, sleep_s (parsed parameters), i (batch
                    \* loop index), rows (the fetched page), ridx (position
                    \* of r in rows), filled (the patch for r)
    total_updated,  \* the handler's counter; after the handler has left,
                    \* the number of updates it had counted
    response,       \* the HTTP response of the finished request
    exc,            \* the exception that ended the request, if any
    runs,           \* requests begun
    pre,            \* the table before the first request
    nfetch,         \* fetches issued by the current request
    ncalls,         \* model calls issued by the current request
    ended,          \* how the batch loop was left
    given,          \* (row, column) cells null in pre into which an
                    \* UPDATE of the client's first request wrote the
                    \* non-null value of its patch
    hit,            \* did the last UPDATE match the row it was built from
    prev,           \* summary of the previous request of the same client
    cv              \* _coerce_value exercised on its own

vars == <<table, pc, frame, total_updated, response, exc, runs, pre, nfetch,
          ncalls, ended, given, hit, prev, cv>>

NoResponse == [code |-> 0, body |-> [pending |-> TRUE]]
\* Flask's answer to an exception no handler catches
InternalServerError == [code |-> 500, body |-> [error |-> "Internal Server Error"]]
NoPrev == [code |-> 0, updated |-> 0, ended |-> "none"]
NoRow == [c \in Cols |-> None]
NoFrame == [batch |-> 0, max_batches |-> 0, sleep_s |-> None, i |-> 0,
            rows |-> <<>>, ridx |-> 0, filled |-> NoRow]
CvIdle == [col |-> "none", val |-> None, out |-> None, done |-> FALSE]

(***************************************************************************)
(* The warehouse: the two SQL statements                                   *)
(***************************************************************************)
\* a numeric cell as <<mantissa, decimal exponent>>
NumOf(v) == CASE v.t = "int" -> <<v.n, 0>>
              [] v.t = "float" -> <<v.m, v.e>>
              [] v.t = "bool" -> <<IF v.b THEN 1 ELSE 0, 0>>
              [] OTHER -> <<0, 0>>

NumGeq(a, b) == a[1] * Pow10(b[2]) >= b[1] * Pow10(a[2])

\* ORDER BY COALESCE(gtv, 0)
OrderKey(row) == NumOf(row["gtv"])

\* WHERE c1 IS NULL OR c2 IS NULL ...  (TRIM(CAST(c AS STRING)) IS NULL is
\* c IS NULL again)
HasNull(row) == \E c \in Cols : row[c] = None

Min(a, b) == IF a < b THEN a ELSE b

\* fetch_rows_with_nulls: every page the SELECT may return; rows whose
\* order keys tie come in either order
fetch_rows_with_nulls(tbl, limit) ==
    LET cand == {r \in RowIds : HasNull(tbl[r])}
        n == Min(limit, Cardinality(cand))
    IN { [k \in 1..n |-> [id |-> s[k], d |-> tbl[s[k]]]] :
         s \in { q \in [1..n -> cand] :
                 /\ \A j, k \in 1..n : j < k =>
                        /\ q[j] # q[k]
                        /\ NumGeq(OrderKey(tbl[q[j]]), OrderKey(tbl[q[k]]))
                 /\ \A r \in cand : (\A k \in 1..n : q[k] # r) =>
                        \A k \in 1..n :
                            NumGeq(OrderKey(tbl[q[k]]), OrderKey(tbl[r])) } }

\* key.get(col) or ""
OrEmpty(v) == IF v = None \/ v = StrV(Empty) THEN StrV(Empty) ELSE v

\* COALESCE(col, '')
Coalesce(v) == IF v = None THEN StrV(Empty) ELSE v

\* the rows the UPDATE's WHERE clause selects; a comparison with NULL on
\* either side selects nothing
Matching(tbl, key) ==
    {r \in RowIds :
        /\ tbl[r]["site_event_entity"] # None
        /\ key["site_event_entity"] # None
        /\ tbl[r]["site_event_entity"] = key["site_event_entity"]
        /\ Coalesce(tbl[r]["city"]) = OrEmpty(key["city"])
        /\ Coalesce(tbl[r]["website"]) = OrEmpty(key["website"])}

\* SET col = @col for every target column
SetClause(old, values) == [c \in Cols |-> values[c]]

\* update_row(key, values)
update_row(tbl, key, values) ==
    [r \in RowIds |-> IF r \in Matching(tbl, key)
                      THEN SetClause(tbl[r], values) ELSE tbl[r]]

(***************************************************************************)
(* The model call                                                          *)
(***************************************************************************)
\* json.loads(text), then json.loads of the text between the first "{" and
\* the last "}"
ReplyParses(text) == text.kind \in {"json", "fenced"}

\* call_llm_fill: the coerced reply
call_llm_fill(text) == [c \in Cols |-> _coerce_value(c, text.obj[c])]

\* not x
Falsy(v) == v = None \/ v = StrV(Empty)

\* the handler's "ensure mandatory identity fields preserved"
PreserveIdentity(key, cleaned) ==
    [c \in Cols |->
        CASE c = "site_event_entity" ->
                 IF Falsy(cleaned[c]) THEN key[c] ELSE cleaned[c]
          [] c \in {"city", "website"} ->
                 IF Falsy(cleaned[c]) THEN OrEmpty(key[c]) ELSE cleaned[c]
          [] OTHER -> cleaned[c]]

DefaultSleep == StrV(<<"0", ".", "1">>)
\* request.args.get(name, default)
Arg(raw, default) == IF raw = Absent THEN default ELSE raw

\* a counter that outlives the request
StaleCount(p) == total_updated[p]

\* total_updated = 0
InitialCount(p) == 0

(***************************************************************************)
(* The request handler enrich_all_nulls, one step per external call        *)
(***************************************************************************)
InitDriver ==
    /\ table \in InitTables
    /\ pc = [p \in AllProcs |-> "idle"]
    /\ frame = [p \in AllProcs |-> NoFrame]
    /\ total_updated = [p \in AllProcs |-> 0]
    /\ response = [p \in AllProcs |-> NoResponse]
    /\ exc = [p \in AllProcs |-> "none"]
    /\ runs = [p \in AllProcs |-> 0]
    /\ pre = table
    /\ nfetch = [p \in AllProcs |-> 0]
    /\ ncalls = [p \in AllProcs |-> 0]
    /\ ended = [p \in AllProcs |-> "none"]
    /\ given = [p \in AllProcs |-> {}]
    /\ hit = [p \in AllProcs |-> TRUE]
    /\ prev = [p \in AllProcs |-> NoPrev]

Init == InitDriver /\ cv = CvIdle

\* an exception leaves the handler: Flask answers 500
Raise(p, e) ==
    /\ exc' = [exc EXCEPT ![p] = e]
    /\ response' = [response EXCEPT ![p] = InternalServerError]
    /\ ended' = [ended EXCEPT ![p] = "exception"]
    /\ pc' = [pc EXCEPT ![p] = "done"]
    /\ frame' = [frame EXCEPT ![p] = NoFrame]

\* return jsonify({"updated_rows": total_updated}), 200
Return(p, count, how) ==
    /\ response' = [response EXCEPT ![p] =
                       [code |-> 200, body |-> [updated_rows |-> count]]]
    /\ ended' = [ended EXCEPT ![p] = how]
    /\ pc' = [pc EXCEPT ![p] = "done"]
    /\ frame' = [frame EXCEPT ![p] = NoFrame]
    /\ exc' = [exc EXCEPT ![p] = "none"]

\* the handler goes on
Continue(p, at, fr) ==
    /\ pc' = [pc EXCEPT ![p] = at]
    /\ frame' = [frame EXCEPT ![p] = fr]
    /\ UNCHANGED <<response, exc, ended>>

\* a request arrives: the query parameters are parsed, the counter is set
\* and the batch loop is entered
Start(p, cap) ==
    /\ pc[p] \in {"idle", "done"}
    /\ runs[p] < cap
    /\ \E req \in Requests :
        LET b == req.batch
            mb == req.max_batches
            sl == Arg(req.sleep, DefaultSleep)
        IN
        /\ runs' = [runs EXCEPT ![p] = @ + 1]
        /\ nfetch' = [nfetch EXCEPT ![p] = 0]
        /\ ncalls' = [ncalls EXCEPT ![p] = 0]
        /\ given' = [given EXCEPT ![p] = {}]
        /\ hit' = [hit EXCEPT ![p] = TRUE]
        /\ prev' = [prev EXCEPT ![p] =
                       IF runs[p] = 0 THEN NoPrev
                       ELSE [code |-> response[p].code,
                             updated |-> total_updated[p],
                             ended |-> ended[p]]]
        /\ IF IntParses(b.s) /\ IntParses(mb.s) /\ FloatParses(sl.s)
           THEN /\ total_updated' = [total_updated EXCEPT ![p] = InitialCount(p)]
                /\ IF 0 < IntOf(mb.s)
                   THEN /\ pc' = [pc EXCEPT ![p] = "fetch"]
                        /\ frame' = [frame EXCEPT ![p] =
                               [NoFrame EXCEPT !.batch = IntOf(b.s),
                                               !.max_batches = IntOf(mb.s),
                                               !.sleep_s = FloatOf(sl.s)]]
                        /\ response' = [response EXCEPT ![p] = NoResponse]
                        /\ exc' = [exc EXCEPT ![p] = "none"]
                        /\ ended' = [ended EXCEPT ![p] = "none"]
                   ELSE Return(p, InitialCount(p), "exhausted")
           ELSE /\ Raise(p, "ValueError")
                /\ total_updated' = [total_updated EXCEPT ![p] = 0]
    /\ UNCHANGED <<table, pre, cv>>

\* rows = fetch_rows_with_nulls(limit=batch); if not rows: break
Fetch(p) ==
    /\ pc[p] = "fetch"
    /\ nfetch' = [nfetch EXCEPT ![p] = @ + 1]
    /\ \/ Raise(p, "QueryError")
       \/ \E page \in fetch_rows_with_nulls(table, frame[p].batch) :
            IF page = <<>>
            THEN Return(p, total_updated[p], "empty")
            ELSE Continue(p, "call", [frame[p] EXCEPT !.rows = page, !.ridx = 1])
    /\ UNCHANGED <<table, total_updated, runs, pre, ncalls, given, hit, prev, cv>>

\* filled = call_llm_fill(current), then the identity fields are restored
CallLLM(p) ==
    /\ pc[p] = "call"
    /\ ncalls' = [ncalls EXCEPT ![p] = @ + 1]
    /\ \/ \E e \in {"RateLimit", "ApiError"} : Raise(p, e)
       \/ \E text \in LLMTexts :
            IF ReplyParses(text)
            THEN Continue(p, "update", [frame[p] EXCEPT !.filled =
                     PreserveIdentity(frame[p].rows[frame[p].ridx].d,
                                      call_llm_fill(text))])
            ELSE Raise(p, "JSONDecodeError")
    /\ UNCHANGED <<table, total_updated, runs, pre, nfetch, given, hit, prev, cv>>

\* update_row(key, filled); total_updated += 1; time.sleep(sleep_s); then
\* the next row, the next batch or the return
UpdateRow(p) ==
    /\ pc[p] = "update"
    /\ \/ /\ Raise(p, "WriteError")
          /\ UNCHANGED <<table, total_updated, given, hit>>
       \/ LET fr == frame[p]
              r == fr.rows[fr.ridx]
          IN
          /\ table' = update_row(table, r.d, fr.filled)
          /\ total_updated' = [total_updated EXCEPT ![p] = @ + 1]
          /\ hit' = [hit EXCEPT ![p] = r.id \in Matching(table, r.d)]
          /\ given' = [given EXCEPT ![p] =
                 IF runs[p] = 1 /\ r.id \in Matching(table, r.d)
                 THEN @ \cup {<<r.id, c>> : c \in {d \in Cols :
                          pre[r.id][d] = None /\ fr.filled[d] # None}}
                 ELSE @]
          /\ IF fr.ridx < Len(fr.rows)
             THEN Continue(p, "call", [fr EXCEPT !.ridx = @ + 1, !.filled = NoRow])
             ELSE IF fr.i + 1 < fr.max_batches
             THEN Continue(p, "fetch", [fr EXCEPT !.i = @ + 1, !.rows = <<>>,
                                                  !.ridx = 0, !.filled = NoRow])
             ELSE Return(p, total_updated[p] + 1, "exhausted")
    /\ UNCHANGED <<runs, pre, nfetch, ncalls, prev, cv>>

\* one client issuing requests one after the other
Next == Start(1, MaxRuns) \/ Fetch(1) \/ CallLLM(1) \/ UpdateRow(1)

Spec == Init /\ [][Next]_vars

\* two clients, one request each, their steps interleaved
NextConc == \E p \in AllProcs :
                Start(p, 1) \/ Fetch(p) \/ CallLLM(p) \/ UpdateRow(p)

SpecConc == Init /\ [][NextConc]_vars

(***************************************************************************)
(* _coerce_value on its own                                                *)
(***************************************************************************)
\* values a reply may carry under a key
CoerceInputs ==
    { None, IntV(0), IntV(1), IntV(40), BoolV(TRUE), BoolV(FALSE),
      FloatV(25, 1), FloatV(1, 0),
      StrV(Empty), StrV(TxtX), StrV(<<".">>),
      StrV(<<"y", "e", "s">>), StrV(<<" ", "Y", "e", "s", " ">>),
      StrV(<<"T", "R", "U", "E">>), StrV(<<"y">>), StrV(<<"1">>),
      StrV(<<"n", "o">>), StrV(<<"F", "a", "l", "s", "e">>), StrV(<<"N">>),
      StrV(<<"0">>), StrV(<<"1", ",", "0", "0", "0">>),
      StrV(<<"4", ".", "5", "0">>), StrV(<<"4", ".", "x">>) }

InitCoerce ==
    /\ InitDriver
    /\ cv \in [col : Cols, val : CoerceInputs, out : {None}, done : {FALSE}]

Coerce ==
    /\ ~cv.done
    /\ cv' = [cv EXCEPT !.out = _coerce_value(cv.col, cv.val), !.done = TRUE]
    /\ UNCHANGED <<table, pc, frame, total_updated, response, exc, runs, pre,
                   nfetch, ncalls, ended, given, hit, prev>>

NextCoerce == Coerce

SpecCoerce == InitCoerce /\ [][NextCoerce]_vars

(***************************************************************************)
(* Properties                                                              *)
(***************************************************************************)
IsNull(v) == v.t = "None"

\* the response body carries the terminal status st
HasStatus(resp, st) == "status" \in DOMAIN resp.body /\ resp.body["status"] = st

\* the response body reports n updated rows
ReportsUpdated(resp, n) ==
    \E f \in {"updated", "updated_rows"} \cap DOMAIN resp.body : resp.body[f] = n

\* the client's first request has been answered
FirstRunOver == pc[1] = "done" /\ runs[1] = 1

\* C1: every cell that was non-null before the run holds the same value
\* when the run is over, whatever the model answered.
AtMostOverwrite ==
    FirstRunOver => \A r \in RowIds : \A c \in Cols :
                        ~IsNull(pre[r][c]) => table[r][c] = pre[r][c]

\* C2: a run ended by a rate-limit error of the model call answers with
\* status stopped_on_rate_limit and the number of updates committed before.
RateLimitShortCircuit ==
    (pc[1] = "done" /\ exc[1] = "RateLimit") =>
        /\ HasStatus(response[1], "stopped_on_rate_limit")
        /\ ReportsUpdated(response[1], total_updated[1])

\* C3: a run that meets no rate limit and whose fetches all succeed stops
\* either at a fetch that returns no rows, with status done, or after
\* exactly max_batches fetch cycles, with status stopped_on_max_batches.
BatchCeiling ==
    [][(pc[1] \in {"fetch", "call", "update"} /\ pc'[1] = "done"
            /\ exc'[1] \notin {"RateLimit", "QueryError"}) =>
        IF ended'[1] = "empty"
        THEN HasStatus(response'[1], "done")
        ELSE /\ nfetch'[1] = frame[1].max_batches
             /\ HasStatus(response'[1], "stopped_on_max_batches")]_vars

\* C4: a run in which a row failed with a model API error, an unparseable
\* reply or a failed UPDATE still completes with a 200 result.
PerRowFailuresAbsorbed ==
    (pc[1] = "done" /\ exc[1] \in {"ApiError", "JSONDecodeError", "WriteError"})
        => response[1].code = 200

\* C5: a cell that was null before the run and into which the run wrote
\* the non-null value a successful model call provided is non-null when
\* the run is over.
NullFillingMonotone ==
    FirstRunOver => \A cell \in given[1] : ~IsNull(table[cell[1]][cell[2]])

\* both of two successive requests of the client were answered 200 and the
\* earlier one updated at least one row
TwoRunsOver ==
    /\ pc[1] = "done" /\ runs[1] >= 2
    /\ prev[1].code = 200 /\ prev[1].updated >= 1
    /\ response[1].code = 200

\* C6 as stated: the second of two successive runs reports strictly fewer
\* updated rows than the first, whenever the first updated at least one.
RerunStrictlyFewer ==
    TwoRunsOver => response[1].body["updated_rows"] < prev[1].updated

\* C6 amended: when the first run stopped at a fetch that returned no rows,
\* the second run reports no updated row at all.
RerunAfterDrainUpdatesNone ==
    (TwoRunsOver /\ prev[1].ended = "empty") =>
        response[1].body["updated_rows"] = 0

\* the second run has fetched, found nothing and answered
RerunAfterDrainWitness ==
    /\ TwoRunsOver /\ prev[1].ended = "empty"
    /\ nfetch[1] = 1 /\ ended[1] = "empty"

\* C7: with two requests interleaving, a cell that holds a non-null value
\* is never changed by a later update of either request.
ConcurrentNoHarm ==
    [][\A r \in RowIds : \A c \in Cols :
          ~IsNull(table[r][c]) => table'[r][c] = table[r][c]]_vars

\* C8: a request with a malformed numeric parameter is answered 400 and
\* does no fetch, model call or update.
MalformedParam400 ==
    (pc[1] = "done" /\ exc[1] = "ValueError") =>
        /\ response[1].code = 400
        /\ nfetch[1] = 0 /\ ncalls[1] = 0 /\ total_updated[1] = 0

\* C9: for the boolean-like column and a non-null v, _coerce_value gives
\* "Yes" when v trimmed and lower-cased is yes, y, true or 1, and the empty
\* string otherwise.
BoolishCoercion ==
    (cv.done /\ cv.col \in BOOLISH_FIELDS /\ ~IsNull(cv.val)) =>
        cv.out = IF Lower(Strip(PyStr(cv.val))) \in YesWords
                 THEN StrV(Yes) ELSE StrV(Empty)

\* C10: the UPDATE built from a fetched row matches that row, also when a
\* key column of the row is null.
UpdateMatchesFetchedRow == hit[1]

====
